---- MODULE Spec2Model ----
(***************************************************************************)
(* Fine lifecycle and payment reconciliation of the Sri Lanka police-fines  *)
(* server: routes/fines.js, routes/payments.js and the Fine model.          *)
(*                                                                          *)
(* A request handler is an async function: it runs without interruption     *)
(* between two awaits, and other requests run while it awaits.  Every       *)
(* action below is one such uninterrupted segment, ending at the database   *)
(* or gateway call the handler awaits.  A document returned by              *)
(* Fine.findById is a private in-memory copy; save() writes back only the   *)
(* paths that differ from the copy as loaded, and pushes new array          *)
(* elements.                                                                *)
(***************************************************************************)
EXTENDS Integers, Sequences, FiniteSets, TLC

\* ---------------------------------------------------------------- bounds
MaxFines == 2
MaxIntents == 1
MaxRequests == 2
MaxInFlight == 2
MaxTicks == 1

\* ------------------------------------------------------------- constants
DueDays == 30
NoDate == -1
NoId == 0
Undef == "undefined"

Drivers == {"d1", "d2"}
Officers == {"o1", "o2"}
Admins == {"a1"}
Users == Drivers \cup Officers \cup Admins
Staff == Officers \cup Admins

Role(u) ==
  IF u \in Drivers THEN "driver"
  ELSE IF u \in Officers THEN "police_officer"
  ELSE "admin"

Statuses == {"pending", "paid", "disputed", "cancelled", "overdue"}
Currencies == {"LKR", "USD", "EUR"}

\* money is counted in thousandths of a currency unit: 2500 is 2.5
Unit == 1000

\* the traffic violations as seeded: one active violation, one inactive
Violations ==
  [v1 |-> [isActive |-> TRUE, fineAmount |-> 2500, currency |-> "LKR", code |-> "c1"],
   v2 |-> [isActive |-> FALSE, fineAmount |-> 2500, currency |-> "LKR", code |-> "c2"]]

\* ids that resolve to no document
NoUser == "u9"
NoViolation == "v9"
Reasons == {Undef, "", "reason"}
TickSteps == {DueDays + 1}

FineIds == 1..MaxFines
IntentIds == 1..MaxIntents
Reqs == 1..MaxInFlight

VARIABLES
  now,      \* the server clock, in days
  ticks,    \* how many times the clock has advanced
  fines,    \* the fines collection: fine id -> stored document
  intents,  \* the gateway's payment intents: intent id -> intent
  req,      \* the requests in flight, one per slot
  nreq,     \* how many requests have been accepted
  out,      \* the response sent by the latest step, if it sent one
  violations,  \* the traffic violations collection: id -> stored document
  accounts     \* the users collection: id -> the stored isActive

vars == <<now, ticks, fines, intents, req, nreq, out, violations, accounts>>

\* ------------------------------------------------------------ Fine model
NoPayment ==
  [paymentId |-> NoId, paymentMethod |-> Undef, paidAt |-> NoDate,
   transactionId |-> NoId, receiptUrl |-> NoId]

NoDispute ==
  [isDisputed |-> FALSE, disputeReason |-> Undef, disputeDate |-> NoDate,
   disputeStatus |-> "pending"]

NoAmount == -1

\* the schema's defaults for a document constructed at time t
Defaults(t) ==
  [driverId |-> Undef, policeOfficer |-> Undef, violationId |-> Undef,
   fineAmount |-> NoAmount, currency |-> "LKR", status |-> "pending",
   paymentInfo |-> NoPayment, dueDate |-> t + DueDays,
   disputeInfo |-> NoDispute, notes |-> <<>>]

\* { ...a, ...b }: the fields of b win
Spread(a, b) ==
  [k \in DOMAIN a \cup DOMAIN b |-> IF k \in DOMAIN b THEN b[k] ELSE a[k]]

\* new Fine(fields) at time t: the paths of the schema, given or defaulted
NewFine(fields, t) ==
  [k \in DOMAIN Defaults(t) |->
     IF k \in DOMAIN fields THEN fields[k] ELSE Defaults(t)[k]]

\* what findById gives for an id that is not in the collection
NullFine ==
  [Defaults(NoDate) EXCEPT !.status = Undef, !.dueDate = NoDate]

findById(id) == IF id \in DOMAIN fines THEN fines[id] ELSE NullFine

Note(kind, status, reason, txn, by, t) ==
  [content |-> [kind |-> kind, status |-> status, reason |-> reason, txn |-> txn],
   addedBy |-> by, addedAt |-> t]

\* pre('save'): a pending document past its due date is stored as overdue
PreSave(doc, t) ==
  IF doc.status = "pending" /\ t > doc.dueDate
  THEN [doc EXCEPT !.status = "overdue"]
  ELSE doc

\* the same with the notes array written whole, as the document holds it
SaveDoc_WholeArray(stored, loaded, doc, pushed) ==
  [stored EXCEPT
     !.status = IF doc.status # loaded.status THEN doc.status ELSE @,
     !.dueDate = IF doc.dueDate # loaded.dueDate THEN doc.dueDate ELSE @,
     !.paymentInfo =
        [k \in DOMAIN NoPayment |->
           IF doc.paymentInfo[k] # loaded.paymentInfo[k]
           THEN doc.paymentInfo[k] ELSE @[k]],
     !.disputeInfo =
        [k \in DOMAIN NoDispute |->
           IF doc.disputeInfo[k] # loaded.disputeInfo[k]
           THEN doc.disputeInfo[k] ELSE @[k]],
     !.notes = loaded.notes \o pushed]

\* document.save(): $set of the modified paths, $push of the new notes
SaveDoc(stored, loaded, doc, pushed) ==
  [stored EXCEPT
     !.status = IF doc.status # loaded.status THEN doc.status ELSE @,
     !.dueDate = IF doc.dueDate # loaded.dueDate THEN doc.dueDate ELSE @,
     !.paymentInfo =
        [k \in DOMAIN NoPayment |->
           IF doc.paymentInfo[k] # loaded.paymentInfo[k]
           THEN doc.paymentInfo[k] ELSE @[k]],
     !.disputeInfo =
        [k \in DOMAIN NoDispute |->
           IF doc.disputeInfo[k] # loaded.disputeInfo[k]
           THEN doc.disputeInfo[k] ELSE @[k]],
     !.notes = @ \o pushed]

\* the same, with the due date closed at the payment
markAsPaid_Redated(doc, paymentInfo, t) ==
  [doc EXCEPT
     !.status = "paid",
     !.dueDate = t,
     !.paymentInfo =
        [k \in DOMAIN NoPayment |->
           IF k = "paidAt" THEN t
           ELSE IF k \in DOMAIN paymentInfo THEN paymentInfo[k]
           ELSE @[k]]]

\* methods.markAsPaid, before its save()
markAsPaid(doc, paymentInfo, t) ==
  [doc EXCEPT
     !.status = "paid",
     !.paymentInfo =
        [k \in DOMAIN NoPayment |->
           IF k = "paidAt" THEN t
           ELSE IF k \in DOMAIN paymentInfo THEN paymentInfo[k]
           ELSE @[k]]]

\* -------------------------------------------------------------- requests
IdleReq ==
  [kind |-> "none", pc |-> "idle", actor |-> Undef, fineId |-> NoId,
   intentId |-> NoId, status |-> Undef, reason |-> Undef, sigValid |-> TRUE,
   evType |-> Undef, lookups |-> 0, found |-> NullFine, loaded |-> NullFine,
   doc |-> NullFine, pushed |-> <<>>, body |-> <<>>]

\* found: the document as findById returned it; doc: the document in memory;
\* loaded: the document in memory as of the last load or save, against which
\* save() decides which paths are modified

NoResponse ==
  [kind |-> "none", resp |-> 0, msg |-> Undef, lookups |-> 0, seen |-> Undef,
   body |-> <<>>, items |-> {}, by |-> Undef, fineId |-> NoId, total |-> 0]

Free(r) == req[r].pc = "idle"

\* a new request takes the lowest free slot
Accepts(r) ==
  /\ Free(r)
  /\ \A s \in Reqs : s < r => ~Free(s)
  /\ nreq < MaxRequests

\* a response, with the status the handler that sent it had found
Response(q, code, msg) ==
  [kind |-> q.kind, resp |-> code, msg |-> msg, lookups |-> q.lookups,
   seen |-> q.found.status, body |-> q.body, items |-> {}, by |-> Undef,
   fineId |-> NoId, total |-> 0]

\* the response of a handler that runs in one step, with who asked for what
Answer(q, code, msg) ==
  [Response(q, code, msg) EXCEPT !.by = q.actor, !.fineId = q.fineId]

Init ==
  /\ now = 0
  /\ ticks = 0
  /\ fines = <<>>
  /\ intents = <<>>
  /\ req = [r \in Reqs |-> IdleReq]
  /\ nreq = 0
  /\ out = NoResponse
  /\ violations = Violations
  /\ accounts = [u \in Users |-> [isActive |-> TRUE]]

\* ---------------------------------------------------------------- clock
Tick(d) ==
  /\ ticks < MaxTicks
  /\ now' = now + d
  /\ ticks' = ticks + 1
  /\ out' = NoResponse
  /\ UNCHANGED <<fines, intents, req, nreq, violations, accounts>>

\* --------------------------------------------------------- authentication
\* the same without the test of user.isActive
authenticateToken_AnyAccount(u) == u \in DOMAIN accounts

\* authenticateToken, for a token that verifies: the user is found and active
authenticateToken(u) == u \in DOMAIN accounts /\ accounts[u].isActive

\* authenticateToken answers 401 itself; next() is not called
Unauthorized(u) ==
  /\ u \in Users
  /\ ~authenticateToken(u)
  /\ out' = Answer([IdleReq EXCEPT !.kind = "refused", !.actor = u],
                   401, "Account is deactivated")
  /\ UNCHANGED <<now, ticks, fines, intents, req, nreq, violations, accounts>>

requireAdmin(u) == Role(u) = "admin"

\* -------------------------------------------------------- POST /api/fines
requirePoliceOrAdmin(u) == Role(u) \in {"police_officer", "admin"}

\* body('customFineAmount').optional().isFloat({ min: 0 })
ValidBody(body) ==
  "customFineAmount" \in DOMAIN body => body.customFineAmount >= 0

\* customFineAmount || violation.fineAmount
fineAmount(body, violation) ==
  IF "customFineAmount" \in DOMAIN body /\ body.customFineAmount # 0
  THEN body.customFineAmount
  ELSE violation.fineAmount

\* const { driverId, violationId, customFineAmount, ...fineData } = req.body
fineData(body) ==
  [k \in DOMAIN body \ {"driverId", "violationId", "customFineAmount"} |-> body[k]]

\* the argument of new Fine(...): the handler's fields, then ...fineData
CreateFields(u, body) ==
  LET violation == violations[body.violationId]
  IN Spread([driverId |-> body.driverId, policeOfficer |-> u,
             violationId |-> body.violationId,
             fineAmount |-> fineAmount(body, violation),
             currency |-> violation.currency],
            fineData(body))

Rejection(code, msg) == [code |-> code, msg |-> msg]

Resolved == Rejection(0, "ok")

\* the same without the test of violation.isActive
References_InactiveAllowed(body) ==
  IF body.driverId \notin Users THEN Rejection(404, "Driver not found")
  ELSE IF Role(body.driverId) # "driver"
  THEN Rejection(400, "Selected user is not a driver")
  ELSE IF body.violationId \notin DOMAIN violations
  THEN Rejection(404, "Violation not found")
  ELSE Resolved

\* the lookups of the driver and of the violation: the first failure, if any
References(body) ==
  IF body.driverId \notin Users THEN Rejection(404, "Driver not found")
  ELSE IF Role(body.driverId) # "driver"
  THEN Rejection(400, "Selected user is not a driver")
  ELSE IF body.violationId \notin DOMAIN violations
  THEN Rejection(404, "Violation not found")
  ELSE IF ~violations[body.violationId].isActive
  THEN Rejection(400, "Selected violation is not active")
  ELSE Resolved

\* the whole handler: it awaits only reads of users and violations, then save()
CreateFine(u, body) ==
  /\ authenticateToken(u)
  /\ LET q == [IdleReq EXCEPT !.kind = "create", !.actor = u, !.body = body]
     IN
       IF ~requirePoliceOrAdmin(u)
       THEN out' = Answer(q, 403, "Access denied") /\ UNCHANGED fines
       ELSE IF ~ValidBody(body)
       THEN out' = Answer(q, 400, "Validation failed") /\ UNCHANGED fines
       ELSE IF References(body) # Resolved
       THEN /\ out' = Answer(q, References(body).code, References(body).msg)
            /\ UNCHANGED fines
       ELSE /\ Len(fines) < MaxFines
            /\ fines' = Append(fines, PreSave(NewFine(CreateFields(u, body), now), now))
            /\ out' = Answer(q, 201, "Fine created successfully")
  /\ UNCHANGED <<now, ticks, intents, req, nreq, violations, accounts>>

\* ------------------------------------------------------- payment gateway
NewIntent(f, amount, currency) ==
  [fineId |-> f, amount |-> amount, currency |-> currency,
   status |-> "requires_payment_method", charges |-> <<>>]

Charge(i) == [id |-> i, receipt_url |-> i]

\* paymentIntent.charges.data[0]?.id and ?.receipt_url
FirstChargeId(intent) ==
  IF Len(intent.charges) > 0 THEN intent.charges[1].id ELSE NoId

FirstChargeReceipt(intent) ==
  IF Len(intent.charges) > 0 THEN intent.charges[1].receipt_url ELSE NoId

\* the payer completes the payment on the gateway's side
GatewayPay(i) ==
  /\ i \in DOMAIN intents
  /\ intents[i].status # "succeeded"
  /\ intents' = [intents EXCEPT ![i] = [@ EXCEPT !.status = "succeeded",
                                                 !.charges = <<Charge(i)>>]]
  /\ out' = NoResponse
  /\ UNCHANGED <<now, ticks, fines, req, nreq, violations, accounts>>

DeniedToDriver(u, fine) == Role(u) = "driver" /\ fine.driverId # u

\* a test that lets every status through
Payable_AnyStatus(status) == TRUE

Payable(status) == status = "pending" \/ status = "overdue"

\* the handler answers and its slot is free again
Finish(r, q, code, msg) ==
  /\ req' = [req EXCEPT ![r] = IdleReq]
  /\ out' = Response(q, code, msg)

\* the handler goes on to its next await
Continue(r, q) ==
  /\ req' = [req EXCEPT ![r] = q]
  /\ out' = NoResponse

\* what the error middleware answers for an error of the gateway's client
GatewayFailure == Rejection(500, "gateway error")

\* a handler that reports the error as a payment that is not complete
CatchGateway_AsNotComplete(r, q) == Finish(r, q, 400, "PaymentNotComplete")

\* catch (error) { next(error) } around the gateway call of confirm-payment
CatchGateway(r, q) == Finish(r, q, GatewayFailure.code, GatewayFailure.msg)

\* --------------------------------- POST /api/payments/create-payment-intent
MinorPerUnit == 100

\* Math.round(n / d) for n >= 0: the nearest integer, a half goes up
Round(n, d) == (2 * n + d) \div (2 * d)

\* Math.round(fine.fineAmount * 100); exact for the amounts of this model,
\* whose products by 100 are representable doubles
amountInCents(amount) == Round(amount * MinorPerUnit, Unit)

\* fine.currency.toLowerCase()
toLowerCase(currency) ==
  CASE currency = "LKR" -> "lkr"
    [] currency = "USD" -> "usd"
    [] currency = "EUR" -> "eur"

CreateIntent(u, f, gatewayOk) ==
  /\ authenticateToken(u)
  /\ LET fine == findById(f)
         q == [IdleReq EXCEPT !.kind = "intent", !.actor = u, !.fineId = f,
                              !.lookups = 1, !.found = fine,
                              !.body = [fineId |-> f]]
     IN
       IF f \notin DOMAIN fines
       THEN out' = Answer(q, 404, "Fine not found") /\ UNCHANGED intents
       ELSE IF DeniedToDriver(u, fine)
       THEN out' = Answer(q, 403, "Access denied") /\ UNCHANGED intents
       ELSE IF ~Payable(fine.status)
       THEN out' = Answer(q, 400, "Fine cannot be paid") /\ UNCHANGED intents
       ELSE IF ~gatewayOk
       THEN /\ out' = Answer(q, GatewayFailure.code, GatewayFailure.msg)
            /\ UNCHANGED intents
       ELSE /\ Len(intents) < MaxIntents
            /\ intents' = Append(intents,
                 NewIntent(f, amountInCents(fine.fineAmount), toLowerCase(fine.currency)))
            /\ out' = Answer(q, 200, "ok")
  /\ UNCHANGED <<now, ticks, fines, req, nreq, violations, accounts>>

\* ------------------------------------ POST /api/payments/confirm-payment
\* the request arrives; authenticateToken awaits the user
ConfirmArrive(r, u, f, i) ==
  /\ authenticateToken(u)
  /\ Accepts(r)
  /\ nreq' = nreq + 1
  /\ req' = [req EXCEPT ![r] = [IdleReq EXCEPT !.kind = "confirm", !.pc = "find",
                                               !.actor = u, !.fineId = f,
                                               !.intentId = i]]
  /\ out' = NoResponse
  /\ UNCHANGED <<now, ticks, fines, intents, violations, accounts>>

\* Fine.findById comes back; up to the await of stripe.paymentIntents.retrieve
ConfirmFind(r) ==
  /\ req[r].kind = "confirm"
  /\ req[r].pc = "find"
  /\ LET fine == findById(req[r].fineId)
         q == [req[r] EXCEPT !.lookups = @ + 1, !.found = fine,
                            !.loaded = fine, !.doc = fine]
     IN
       IF q.fineId \notin DOMAIN fines THEN Finish(r, q, 404, "Fine not found")
       ELSE IF DeniedToDriver(q.actor, fine) THEN Finish(r, q, 403, "Access denied")
       ELSE Continue(r, [q EXCEPT !.pc = "retrieve"])
  /\ UNCHANGED <<now, ticks, fines, intents, nreq, violations, accounts>>

\* the two checks on the retrieved intent
NotSucceeded(intent) == intent.status # "succeeded"

\* the same without the comparison of the fine ids
Mismatch_Unchecked(intent, f) == FALSE

Mismatch(intent, f) == intent.fineId # f

StripePaymentInfo(i, intent) ==
  [paymentId |-> i, paymentMethod |-> "stripe",
   transactionId |-> FirstChargeId(intent),
   receiptUrl |-> FirstChargeReceipt(intent)]

\* the intent comes back; its status and fineId are tested; markAsPaid and its save
ConfirmRetrieve(r, gatewayOk) ==
  /\ req[r].kind = "confirm"
  /\ req[r].pc = "retrieve"
  /\ LET q == req[r]
         f == q.fineId
         i == q.intentId
     IN
       IF ~gatewayOk \/ i \notin DOMAIN intents
       THEN CatchGateway(r, q) /\ UNCHANGED fines
       ELSE IF NotSucceeded(intents[i])
       THEN Finish(r, q, 400, "PaymentNotComplete") /\ UNCHANGED fines
       ELSE IF Mismatch(intents[i], f)
       THEN Finish(r, q, 400, "Mismatch") /\ UNCHANGED fines
       ELSE LET doc == PreSave(markAsPaid(q.doc, StripePaymentInfo(i, intents[i]), now), now)
            IN /\ fines' = [fines EXCEPT ![f] = SaveDoc(@, q.loaded, doc, <<>>)]
               /\ Continue(r, [q EXCEPT !.pc = "addNote", !.loaded = doc, !.doc = doc])
  /\ UNCHANGED <<now, ticks, intents, nreq, violations, accounts>>

\* addNote('Payment completed via Stripe...') and the response
ConfirmAddNote(r) ==
  /\ req[r].kind = "confirm"
  /\ req[r].pc = "addNote"
  /\ LET q == req[r]
         f == q.fineId
         note == Note("payment", Undef, Undef, FirstChargeId(intents[q.intentId]),
                      q.actor, now)
         doc == PreSave(q.doc, now)
     IN /\ fines' = [fines EXCEPT ![f] = SaveDoc(@, q.loaded, doc, <<note>>)]
        /\ Finish(r, q, 200, "Payment confirmed successfully")
  /\ UNCHANGED <<now, ticks, intents, nreq, violations, accounts>>

\* -------------------------------------------- POST /api/payments/webhook
EventTypes == {"payment_intent.succeeded", "payment_intent.payment_failed", "other"}

\* a signed event is one the gateway sent about one of its intents; an
\* unsigned one is anybody's, with any content
Genuine(evType, i, f) ==
  /\ i \in DOMAIN intents
  /\ f = intents[i].fineId
  /\ evType = "payment_intent.succeeded" => intents[i].status = "succeeded"
  /\ evType = "payment_intent.payment_failed" => intents[i].status # "succeeded"

\* the notification arrives; express.raw reads its body
WebhookArrive(r, sigValid, evType, i, f) ==
  /\ Accepts(r)
  /\ nreq' = nreq + 1
  /\ sigValid => Genuine(evType, i, f)
  /\ req' = [req EXCEPT ![r] = [IdleReq EXCEPT !.kind = "webhook", !.pc = "verify",
                                               !.sigValid = sigValid,
                                               !.evType = evType,
                                               !.intentId = i, !.fineId = f]]
  /\ out' = NoResponse
  /\ UNCHANGED <<now, ticks, fines, intents, violations, accounts>>

\* a verification that accepts every signature
constructEvent_AcceptAll(sigValid) == TRUE

\* stripe.webhooks.constructEvent: TRUE for the event, FALSE for its throw
constructEvent(sigValid) == sigValid

\* a dispatch that treats every event as a payment that succeeded
Handled_AnyType(evType) == TRUE

\* switch (event.type): the one case that touches a fine
Handled(evType) == evType = "payment_intent.succeeded"

\* signature check and dispatch on the event type, up to the await of findById
WebhookVerify(r) ==
  /\ req[r].kind = "webhook"
  /\ req[r].pc = "verify"
  /\ LET q == req[r]
     IN
       IF ~constructEvent(q.sigValid) THEN Finish(r, q, 400, "Webhook Error")
       ELSE IF Handled(q.evType) /\ q.fineId # NoId
       THEN Continue(r, [q EXCEPT !.pc = "lookup"])
       ELSE Finish(r, q, 200, "received")
  /\ UNCHANGED <<now, ticks, fines, intents, nreq, violations, accounts>>

\* the same without the test of the status
WebhookApplies_AnyStatus(found, fine) == found

\* the condition under which the webhook applies the paid-transition
WebhookApplies(found, fine) == found /\ fine.status = "pending"

\* Fine.findById comes back
WebhookFind(r) ==
  /\ req[r].kind = "webhook"
  /\ req[r].pc = "lookup"
  /\ LET q == req[r]
         fine == findById(q.fineId)
         q1 == [q EXCEPT !.lookups = @ + 1, !.found = fine,
                            !.loaded = fine, !.doc = fine]
     IN
       IF WebhookApplies(q.fineId \in DOMAIN fines, fine)
       THEN Continue(r, [q1 EXCEPT !.pc = "markPaid"])
       ELSE Finish(r, q1, 200, "received")
  /\ UNCHANGED <<now, ticks, fines, intents, nreq, violations, accounts>>

\* markAsPaid and its save, then the acknowledgement
WebhookMarkAsPaid(r) ==
  /\ req[r].kind = "webhook"
  /\ req[r].pc = "markPaid"
  /\ LET q == req[r]
         f == q.fineId
         i == q.intentId
         doc == PreSave(markAsPaid(q.doc, StripePaymentInfo(i, intents[i]), now), now)
     IN /\ fines' = [fines EXCEPT ![f] = SaveDoc(@, q.loaded, doc, <<>>)]
        /\ Finish(r, q, 200, "received")
  /\ UNCHANGED <<now, ticks, intents, nreq, violations, accounts>>

\* ------------------------------------------- PUT /api/fines/:id/status
\* the request arrives; authenticateToken awaits the user
StatusArrive(r, u, f, status, reason) ==
  /\ authenticateToken(u)
  /\ Accepts(r)
  /\ nreq' = nreq + 1
  /\ req' = [req EXCEPT ![r] = [IdleReq EXCEPT !.kind = "status", !.pc = "find",
                                               !.actor = u, !.fineId = f,
                                               !.status = status,
                                               !.reason = reason]]
  /\ out' = NoResponse
  /\ UNCHANGED <<now, ticks, fines, intents, violations, accounts>>

\* the same without the test of the target status
StatusPermission_AnyTarget(u, fine, status) ==
  IF Role(u) = "driver" /\ fine.driverId # u THEN "Access denied" ELSE "ok"

\* the permission check of the status update: the message of its 403, or "ok"
StatusPermission(u, fine, status) ==
  IF Role(u) = "driver"
  THEN IF fine.driverId # u THEN "Access denied"
       ELSE IF status # "disputed" THEN "Drivers can only dispute fines"
       ELSE "ok"
  ELSE "ok"

\* the handler's changes to the loaded document, before save()
StatusChange(fine, status, reason, t) ==
  [fine EXCEPT
     !.status = status,
     !.disputeInfo =
        IF status = "disputed"
        THEN [isDisputed |-> TRUE, disputeReason |-> reason, disputeDate |-> t,
              disputeStatus |-> "pending"]
        ELSE @]

\* the same with the note pushed whether or not a reason came
StatusNotes_Always(u, status, reason, t) ==
  <<Note("status", status, reason, NoId, u, t)>>

\* if (reason) fine.notes.push(...): an absent or empty reason pushes nothing
StatusNotes(u, status, reason, t) ==
  IF reason \notin {Undef, ""}
  THEN <<Note("status", status, reason, NoId, u, t)>>
  ELSE <<>>

\* Fine.findById comes back; checks and changes, up to the await of save()
StatusFind(r) ==
  /\ req[r].kind = "status"
  /\ req[r].pc = "find"
  /\ LET fine == findById(req[r].fineId)
         q == [req[r] EXCEPT !.lookups = @ + 1, !.found = fine,
                            !.loaded = fine, !.doc = fine]
         perm == StatusPermission(q.actor, fine, q.status)
     IN
       IF q.fineId \notin DOMAIN fines THEN Finish(r, q, 404, "Fine not found")
       ELSE IF perm # "ok" THEN Finish(r, q, 403, perm)
       ELSE Continue(r, [q EXCEPT
                           !.pc = "save",
                           !.doc = StatusChange(fine, q.status, q.reason, now),
                           !.pushed = StatusNotes(q.actor, q.status, q.reason, now)])
  /\ UNCHANGED <<now, ticks, fines, intents, nreq, violations, accounts>>

\* save() writes; the response
StatusSave(r) ==
  /\ req[r].kind = "status"
  /\ req[r].pc = "save"
  /\ LET q == req[r]
         doc == PreSave(q.doc, now)
     IN /\ fines' = [fines EXCEPT ![q.fineId] = SaveDoc(@, q.loaded, doc, q.pushed)]
        /\ Finish(r, q, 200, "Status updated successfully")
  /\ UNCHANGED <<now, ticks, intents, nreq, violations, accounts>>

\* ------------------------------------------- POST /api/fines/:id/notes
NoteArrive(r, u, f) ==
  /\ authenticateToken(u)
  /\ Accepts(r)
  /\ nreq' = nreq + 1
  /\ req' = [req EXCEPT ![r] = [IdleReq EXCEPT !.kind = "note", !.pc = "find",
                                               !.actor = u, !.fineId = f]]
  /\ out' = NoResponse
  /\ UNCHANGED <<now, ticks, fines, intents, violations, accounts>>

\* the role check, then Fine.findById comes back; addNote up to its save()
NoteFind(r) ==
  /\ req[r].kind = "note"
  /\ req[r].pc = "find"
  /\ LET q0 == req[r]
         fine == findById(q0.fineId)
         q == [q0 EXCEPT !.lookups = @ + 1, !.found = fine,
                            !.loaded = fine, !.doc = fine]
     IN
       IF ~requirePoliceOrAdmin(q0.actor) THEN Finish(r, q0, 403, "Access denied")
       ELSE IF q.fineId \notin DOMAIN fines THEN Finish(r, q, 404, "Fine not found")
       ELSE Continue(r, [q EXCEPT
                           !.pc = "save",
                           !.pushed = <<Note("note", Undef, Undef, NoId, q.actor, now)>>])
  /\ UNCHANGED <<now, ticks, fines, intents, nreq, violations, accounts>>

NoteSave(r) ==
  /\ req[r].kind = "note"
  /\ req[r].pc = "save"
  /\ LET q == req[r]
         doc == PreSave(q.doc, now)
     IN /\ fines' = [fines EXCEPT ![q.fineId] = SaveDoc(@, q.loaded, doc, q.pushed)]
        /\ Finish(r, q, 200, "Note added successfully")
  /\ UNCHANGED <<now, ticks, intents, nreq, violations, accounts>>

\* ------------------------------------------------------------------ reads
\* virtual('isOverdue')
isOverdue(fine, t) == fine.status = "pending" /\ t > fine.dueDate

\* a fine as its JSON presents it: the stored status, and the virtual
Presented(f, fine, t) ==
  [id |-> f, status |-> fine.status, isOverdue |-> isOverdue(fine, t)]

\* GET /api/fines/:id
GetFine(u, f) ==
  /\ authenticateToken(u)
  /\ LET fine == findById(f)
         q == [IdleReq EXCEPT !.kind = "get", !.actor = u, !.fineId = f,
                              !.lookups = 1, !.found = fine]
     IN
       IF f \notin DOMAIN fines THEN out' = Answer(q, 404, "Fine not found")
       ELSE IF DeniedToDriver(u, fine) THEN out' = Answer(q, 403, "Access denied")
       ELSE out' = [Answer(q, 200, "fine") EXCEPT
                      !.items = {Presented(f, fine, now)}]
  /\ UNCHANGED <<now, ticks, fines, intents, req, nreq, violations, accounts>>

\* a query that takes the driver asked for from any user
ListQuery_AnyDriver(u, status, driverId, fine) ==
  /\ driverId # Undef => fine.driverId = driverId
  /\ status # Undef => fine.status = status

\* the query of GET /api/fines: a driver's own fines, or the driver asked
\* for; with the status asked for
ListQuery(u, status, driverId, fine) ==
  /\ Role(u) = "driver" => fine.driverId = u
  /\ (Role(u) # "driver" /\ driverId # Undef) => fine.driverId = driverId
  /\ status # Undef => fine.status = status

\* GET /api/fines, first page
ListFines(u, status, driverId) ==
  /\ authenticateToken(u)
  /\ LET q == [IdleReq EXCEPT !.kind = "list", !.actor = u, !.status = status,
                              !.lookups = 1]
         found == {f \in DOMAIN fines : ListQuery(u, status, driverId, fines[f])}
     IN out' = [Answer(q, 200, "fines") EXCEPT
                  !.items = {Presented(f, fines[f], now) : f \in found},
                  !.total = Cardinality(found)]
  /\ UNCHANGED <<now, ticks, fines, intents, req, nreq, violations, accounts>>

\* a receipt for every status
ReceiptAllowed_AnyStatus(status) == TRUE

ReceiptAllowed(status) == status = "paid"

\* GET /api/payments/fine/:fineId/receipt
GetReceipt(u, f) ==
  /\ authenticateToken(u)
  /\ LET fine == findById(f)
         q == [IdleReq EXCEPT !.kind = "receipt", !.actor = u, !.fineId = f,
                              !.lookups = 1, !.found = fine]
     IN
       IF f \notin DOMAIN fines THEN out' = Answer(q, 404, "Fine not found")
       ELSE IF DeniedToDriver(u, fine) THEN out' = Answer(q, 403, "Access denied")
       ELSE IF ~ReceiptAllowed(fine.status)
       THEN out' = Answer(q, 400, "Fine has not been paid yet")
       ELSE out' = Answer(q, 200, "receipt")
  /\ UNCHANGED <<now, ticks, fines, intents, req, nreq, violations, accounts>>

\* --------------------------------------------------------- specifications
Issuers == {"o1"}

\* the creation requests of a quiet day: a driver, the active violation
PlainBodies == {[driverId |-> d, violationId |-> "v1"] : d \in Drivers}

Environment ==
  \/ \E d \in TickSteps : Tick(d)
  \/ \E u \in Issuers, b \in PlainBodies : CreateFine(u, b)

\* payment requests sent by the users of U
PaymentsBy(U) ==
  \/ \E i \in IntentIds : GatewayPay(i)
  \/ \E u \in U, f \in FineIds, ok \in BOOLEAN : CreateIntent(u, f, ok)
  \/ \E r \in Reqs, u \in U, f \in FineIds, i \in IntentIds : ConfirmArrive(r, u, f, i)
  \/ \E r \in Reqs : ConfirmFind(r)
  \/ \E r \in Reqs, ok \in BOOLEAN : ConfirmRetrieve(r, ok)
  \/ \E r \in Reqs : ConfirmAddNote(r)
  \/ \E r \in Reqs, sig \in BOOLEAN, t \in EventTypes, i \in IntentIds, f \in FineIds :
       WebhookArrive(r, sig, t, i, f)
  \/ \E r \in Reqs : WebhookVerify(r)
  \/ \E r \in Reqs : WebhookFind(r)
  \/ \E r \in Reqs : WebhookMarkAsPaid(r)

Payments == PaymentsBy(Users)

\* the payment routes tell a driver from the staff and nothing more: two
\* drivers and one officer are every kind of payer
Payers == {"d1", "d2", "o1"}

StatusUpdates ==
  \/ \E r \in Reqs, u \in Users, f \in FineIds, st \in Statuses, rs \in Reasons :
       StatusArrive(r, u, f, st, rs)
  \/ \E r \in Reqs : StatusFind(r)
  \/ \E r \in Reqs : StatusSave(r)

Notes ==
  \/ \E r \in Reqs, u \in Users, f \in FineIds : NoteArrive(r, u, f)
  \/ \E r \in Reqs : NoteFind(r)
  \/ \E r \in Reqs : NoteSave(r)

Reads ==
  \/ \E u \in Users, f \in FineIds : GetFine(u, f)
  \/ \E u \in Users, st \in Statuses \cup {Undef}, d \in Drivers \cup {Undef} :
       ListFines(u, st, d)
  \/ \E u \in Users, f \in FineIds : GetReceipt(u, f)

Next == Environment \/ Payments \/ StatusUpdates \/ Notes \/ Reads

\* the server with every kind of request
Spec == Init /\ [][Next]_vars

\* the server while only payment requests and gateway notifications arrive
NextPay == Environment \/ PaymentsBy(Payers)

SpecPay == Init /\ [][NextPay]_vars

\* the server while only status updates arrive, one at a time
Solo == \A r \in Reqs : Free(r)

SerialStatusUpdates ==
  \/ /\ Solo
     /\ \E r \in Reqs, u \in Users, f \in FineIds, st \in Statuses, rs \in Reasons :
          StatusArrive(r, u, f, st, rs)
  \/ \E r \in Reqs : StatusFind(r)
  \/ \E r \in Reqs : StatusSave(r)

NextStatus == Environment \/ SerialStatusUpdates

SpecStatus == Init /\ [][NextStatus]_vars

\* the server while payments are confirmed and the issuing officer updates
\* statuses, concurrently
Ledger ==
  \/ Environment
  \/ \E i \in IntentIds : GatewayPay(i)
  \/ \E u \in Drivers, f \in FineIds, ok \in BOOLEAN : CreateIntent(u, f, ok)
  \/ \E r \in Reqs, u \in Drivers, f \in FineIds, i \in IntentIds : ConfirmArrive(r, u, f, i)
  \/ \E r \in Reqs : ConfirmFind(r)
  \/ \E r \in Reqs, ok \in BOOLEAN : ConfirmRetrieve(r, ok)
  \/ \E r \in Reqs : ConfirmAddNote(r)
  \/ \E r \in Reqs, u \in Issuers, f \in FineIds, st \in Statuses :
       StatusArrive(r, u, f, st, Undef)
  \/ \E r \in Reqs : StatusFind(r)
  \/ \E r \in Reqs : StatusSave(r)

SpecLedger == Init /\ [][Ledger]_vars

\* the server while fines are issued and read and intents are opened, one
\* request at a time
Creators == {"o1", "d1"}

BaseBody == [driverId |-> "d1", violationId |-> "v1"]

\* creation requests: every kind of reference, custom amounts, and bodies
\* that carry one more path of the schema
ReferenceBodies ==
  {[driverId |-> d, violationId |-> v] :
     d \in {"d1", "o1", NoUser}, v \in {"v1", "v2", NoViolation}}

CustomAmounts == {0 - 5 * Unit, 0, 5, 1500}

AmountBodies == {Spread(BaseBody, [customFineAmount |-> a]) : a \in CustomAmounts}

Extras ==
  {[currency |-> "USD"], [status |-> "paid"], [dueDate |-> 0],
   [policeOfficer |-> "o2"], [fineAmount |-> 7000]}

ExtraBodies == {Spread(BaseBody, e) : e \in Extras}

Bodies == ReferenceBodies \cup AmountBodies \cup ExtraBodies

Desk ==
  \/ \E d \in TickSteps : Tick(d)
  \/ \E u \in Creators, b \in Bodies : CreateFine(u, b)
  \/ \E u \in Payers, f \in FineIds, ok \in BOOLEAN : CreateIntent(u, f, ok)
  \/ \E u \in Payers, f \in FineIds : GetFine(u, f)
  \/ \E u \in Payers, st \in {Undef, "pending", "overdue"}, d \in {Undef, "d1"} :
       ListFines(u, st, d)
  \/ \E u \in Payers, f \in FineIds : GetReceipt(u, f)

SpecDesk == Init /\ [][Desk]_vars

\* confirm-payment requests, one at a time
SerialConfirms ==
  \/ \E i \in IntentIds : GatewayPay(i)
  \/ /\ Solo
     /\ \E r \in Reqs, u \in Payers, f \in FineIds, i \in IntentIds :
          ConfirmArrive(r, u, f, i)
  \/ \E r \in Reqs : ConfirmFind(r)
  \/ \E r \in Reqs, ok \in BOOLEAN : ConfirmRetrieve(r, ok)
  \/ \E r \in Reqs : ConfirmAddNote(r)

\* the server while the fines of two drivers are read and paid, one request
\* at a time
View ==
  \/ Environment
  \/ \E u \in Payers, f \in FineIds : GetFine(u, f)
  \/ \E u \in Payers, st \in {Undef, "pending", "paid"}, d \in Drivers \cup {Undef} :
       ListFines(u, st, d)
  \/ \E u \in Payers, f \in FineIds : GetReceipt(u, f)
  \/ \E u \in Payers, f \in FineIds, ok \in BOOLEAN : CreateIntent(u, f, ok)
  \/ SerialConfirms

SpecView == Init /\ [][View]_vars

\* ------------------------------------------------------------ properties
\* request r takes a step
Stepped(r) == req'[r] # req[r]

\* request r sends its response in this step
Answers(r) == ~Free(r) /\ req'[r] = IdleReq

StoredFine(r) == fines[req[r].fineId]

PaymentInfoComplete(p) ==
  /\ p.paymentId # NoId
  /\ p.paymentMethod # Undef
  /\ p.paidAt # NoDate
  /\ p.transactionId # NoId
  /\ p.receiptUrl # NoId

\* the paid status of fine f was written by a confirm-payment: one that is
\* still to add its note, or one that has added it
PaidByConfirm(f) ==
  \/ \E s \in Reqs :
       req[s].kind = "confirm" /\ req[s].pc = "addNote" /\ req[s].fineId = f
  \/ \E k \in DOMAIN fines[f].notes : fines[f].notes[k].content.kind = "payment"

\* C1: of a confirm-payment and a webhook racing on one fine, the one that
\* read the fine before it was paid and writes after the other has paid it
\* finds it paid and changes nothing.
C1_RaceLoserChangesNothing ==
  [][\A r \in Reqs :
       ( /\ \/ /\ req[r].kind = "webhook"
               /\ req[r].pc = "markPaid"
               /\ PaidByConfirm(req[r].fineId)
            \/ /\ req[r].kind = "confirm"
               /\ req[r].pc = "retrieve"
               /\ ~PaidByConfirm(req[r].fineId)
         /\ Stepped(r)
         /\ req[r].found.status # "paid"
         /\ StoredFine(r).status = "paid" )
       => fines' = fines]_vars

\* C2: a confirm-payment, alone in flight, for a fine it finds already paid
\* by the same intent, payment note included, changes nothing in the fine and, unless the gateway
\* fails, is answered with success.
C2_ConfirmIdempotent ==
  [][\A r \in Reqs :
       ( /\ req[r].kind = "confirm"
         /\ req[r].pc \in {"retrieve", "addNote"}
         /\ Stepped(r)
         /\ \A s \in Reqs \ {r} : Free(s)
         /\ req[r].intentId \in DOMAIN intents
         /\ req[r].found.status = "paid"
         /\ req[r].found.paymentInfo.paymentId = req[r].intentId
         /\ \E k \in DOMAIN req[r].found.notes :
              req[r].found.notes[k].content.kind = "payment" )
       => /\ fines' = fines
          /\ Answers(r) => out'.resp \in {200, 500}]_vars

\* C3: no step changes the payment metadata of a fine whose status is paid.
C3_PaymentInfoImmutable ==
  [][\A f \in DOMAIN fines :
       fines[f].status = "paid" => fines'[f].paymentInfo = fines[f].paymentInfo]_vars

\* C4: every fine whose status is paid has all five payment metadata fields.
C4_PaidHasPaymentInfo ==
  \A f \in DOMAIN fines :
    fines[f].status = "paid" => PaymentInfoComplete(fines[f].paymentInfo)

\* C5: a verified payment-succeeded notification whose fine is paid when the
\* handler looks it up changes no fine and is acknowledged with success.
C5_WebhookOnPaidIsNoOp ==
  [][\A r \in Reqs :
       ( /\ req[r].kind = "webhook"
         /\ req[r].pc = "lookup"
         /\ Stepped(r)
         /\ req[r].fineId \in DOMAIN fines
         /\ StoredFine(r).status = "paid" )
       => /\ fines' = fines
          /\ Answers(r)
          /\ out'.resp = 200]_vars

C5_Witness ==
  /\ out.kind = "webhook"
  /\ out.resp = 200
  /\ out.lookups = 1
  /\ out.seen = "paid"
  /\ \E f \in DOMAIN fines :
       fines[f].status = "paid" /\ PaymentInfoComplete(fines[f].paymentInfo)

\* C6: a verified payment-succeeded notification that finds its fine payable
\* (pending or overdue) leaves it as a confirm-payment would: paid, stamped
\* with the intent, and with the payment note appended.
C6_WebhookSameAsConfirm ==
  [][\A r \in Reqs :
       ( /\ req[r].kind = "webhook"
         /\ req[r].pc \in {"lookup", "markPaid"}
         /\ Answers(r)
         /\ req[r].fineId \in DOMAIN fines
         /\ Payable(IF req[r].pc = "lookup" THEN StoredFine(r).status
                    ELSE req[r].found.status) )
       => LET fine == fines'[req[r].fineId]
          IN /\ fine.status = "paid"
             /\ fine.paymentInfo.paymentId = req[r].intentId
             /\ Len(fine.notes) > 0
             /\ fine.notes[Len(fine.notes)].content.kind = "payment"]_vars

\* C7: a confirm-payment whose intent has not succeeded, or references
\* another fine, changes no fine and is answered with a failure.
C7_FailedConfirmChangesNothing ==
  [][\A r \in Reqs :
       ( /\ req[r].kind = "confirm"
         /\ req[r].pc = "retrieve"
         /\ Stepped(r)
         /\ req[r].intentId \in DOMAIN intents
         /\ \/ intents[req[r].intentId].status # "succeeded"
            \/ intents[req[r].intentId].fineId # req[r].fineId )
       => /\ fines' = fines
          /\ Answers(r)
          /\ out'.resp \in {400, 500}
          /\ out'.resp = 400 => out'.msg \in {"PaymentNotComplete", "Mismatch"}]_vars

C7_Witness ==
  /\ out.kind = "confirm"
  /\ out.resp = 400
  /\ out.msg = "Mismatch"
  /\ out.seen = "pending"
  /\ \A f \in DOMAIN fines :
       /\ fines[f].status = "pending"
       /\ fines[f].paymentInfo = NoPayment
       /\ fines[f].notes = <<>>

\* C8: a notification whose signature does not verify is rejected without
\* any fine being looked up, and no fine changes.
C8_WebhookFailsClosed ==
  [][\A r \in Reqs :
       ( /\ req[r].kind = "webhook"
         /\ ~req[r].sigValid
         /\ Stepped(r) )
       => /\ fines' = fines
          /\ Answers(r)
          /\ out'.resp = 400
          /\ out'.lookups = 0]_vars

C8_Witness ==
  /\ out.kind = "webhook"
  /\ out.resp = 400
  /\ out.lookups = 0
  /\ \E f \in DOMAIN fines : fines[f].status = "pending"

\* C9: a driver's status update on another driver's fine, or to a status
\* other than disputed, is answered 403 and changes no fine; a driver's
\* update that gets as far as saving is a dispute of the driver's own fine.
C9_DriverOnlyDisputesOwn ==
  [][\A r \in Reqs :
       /\ ( /\ req[r].kind = "status"
            /\ req[r].pc = "find"
            /\ Stepped(r)
            /\ Role(req[r].actor) = "driver"
            /\ req[r].fineId \in DOMAIN fines
            /\ \/ StoredFine(r).driverId # req[r].actor
               \/ req[r].status # "disputed" )
          => /\ fines' = fines
             /\ Answers(r)
             /\ out'.resp = 403
       /\ ( /\ req'[r].kind = "status"
            /\ req'[r].pc = "save"
            /\ Role(req'[r].actor) = "driver" )
          => /\ req'[r].found.driverId = req'[r].actor
             /\ req'[r].status = "disputed"]_vars

C9_Witness ==
  /\ out.kind = "status"
  /\ out.resp = 403
  /\ out.msg = "Drivers can only dispute fines"
  /\ out.seen = "pending"
  /\ \A f \in DOMAIN fines : fines[f].status = "pending"

\* C10: a driver's status update that finds the fine paid or cancelled does
\* not leave it disputed.
C10_NoDisputeAfterPayment ==
  [][\A r \in Reqs :
       ( /\ req[r].kind = "status"
         /\ req[r].pc = "save"
         /\ Stepped(r)
         /\ Role(req[r].actor) = "driver"
         /\ req[r].found.status \in {"paid", "cancelled"} )
       => fines'[req[r].fineId].status # "disputed"]_vars

\* C11: a status update by an actor who is neither an admin, nor the officer
\* who issued the fine, nor the owning driver disputing it, is answered 403
\* and changes no fine.
C11_OnlyAdminOrIssuerSetsStatus ==
  [][\A r \in Reqs :
       ( /\ req[r].kind = "status"
         /\ req[r].pc = "find"
         /\ Stepped(r)
         /\ req[r].fineId \in DOMAIN fines
         /\ Role(req[r].actor) # "admin"
         /\ StoredFine(r).policeOfficer # req[r].actor
         /\ ~( /\ StoredFine(r).driverId = req[r].actor
               /\ req[r].status = "disputed" ) )
       => /\ fines' = fines
          /\ Answers(r)
          /\ out'.resp = 403]_vars

\* fine f is written in this step
Saved(f) ==
  /\ f \in DOMAIN fines'
  /\ f \in DOMAIN fines => fines'[f] # fines[f]

\* C12: after a step that saves a fine, the fine is not stored as pending if
\* its due date has passed at the time of the save.
C12_SavedPastDueIsNotPending ==
  [][\A f \in FineIds :
       Saved(f) => ~(fines'[f].status = "pending" /\ now > fines'[f].dueDate)]_vars

\* C13: a fine presented by a read (get by id, list) is not presented as
\* pending when its due date is before the current time.
C13_ReadsPresentOverdue ==
  [][\A it \in out'.items :
       ( /\ out'.kind \in {"get", "list"}
         /\ it.id \in DOMAIN fines
         /\ now > fines[it.id].dueDate )
       => it.status # "pending"]_vars

\* the body of the creation request answered in this step
Created == out'.body

\* the creation request of this step got past the role check and the validators
Admitted ==
  /\ out'.kind = "create"
  /\ out'.resp # 403
  /\ ValidBody(Created)

DriverResolves(body) == body.driverId \in Users /\ Role(body.driverId) = "driver"

\* C14: a creation whose driver id resolves to no user, or whose violation id
\* resolves to no violation, is answered 404; one whose user is not a driver,
\* or whose violation is inactive, is answered 400; the first failure
\* decides, and in each case the fines are unchanged.
C14_CreationRejectsBadReferences ==
  [][Admitted =>
       /\ Created.driverId \notin Users
            => out'.resp = 404 /\ out'.msg = "Driver not found" /\ fines' = fines
       /\ (Created.driverId \in Users /\ Role(Created.driverId) # "driver")
            => out'.resp = 400 /\ out'.msg = "Selected user is not a driver"
               /\ fines' = fines
       /\ (DriverResolves(Created) /\ Created.violationId \notin DOMAIN violations)
            => out'.resp = 404 /\ out'.msg = "Violation not found" /\ fines' = fines
       /\ ( /\ DriverResolves(Created)
            /\ Created.violationId \in DOMAIN violations
            /\ ~violations[Created.violationId].isActive )
            => out'.resp = 400 /\ out'.msg = "Selected violation is not active"
               /\ fines' = fines]_vars

C14_Witness ==
  /\ out.kind = "create"
  /\ out.resp = 400
  /\ out.msg = "Selected violation is not active"
  /\ out.body.violationId = "v2"
  /\ Len(fines) = 1

\* the creation request of this step persisted a fine
Persisted ==
  /\ out'.kind = "create"
  /\ Len(fines') = Len(fines) + 1

NewestFine == fines'[Len(fines')]

\* C15: the amount of a fine created from a request without a fineAmount
\* path of its own is the custom amount when one is supplied (zero
\* included) and the violation's default amount when none is; a negative
\* custom amount is answered 400 and no fine is created.
C15_AmountCustomOrDefault ==
  [][/\ (Persisted /\ "fineAmount" \notin DOMAIN Created) =>
          IF "customFineAmount" \in DOMAIN Created
          THEN NewestFine.fineAmount = Created.customFineAmount
          ELSE NewestFine.fineAmount = violations[Created.violationId].fineAmount
     /\ ( /\ out'.kind = "create"
          /\ out'.resp # 403
          /\ "customFineAmount" \in DOMAIN Created
          /\ Created.customFineAmount < 0 )
        => /\ out'.resp = 400
           /\ out'.msg = "Validation failed"
           /\ fines' = fines]_vars

\* C16: the currency of a created fine is the currency of the violation it
\* references.
C16_CurrencyFromViolation ==
  [][Persisted =>
       NewestFine.currency = violations[Created.violationId].currency]_vars

\* C17: a created fine is stored pending, without payment metadata, issued
\* by one of the staff who create fines, and due 30 days after its creation.
C17_CreatedPendingDueIn30Days ==
  [][Persisted =>
       /\ NewestFine.status = "pending"
       /\ NewestFine.paymentInfo = NoPayment
       /\ NewestFine.policeOfficer \in Creators \cap Staff
       /\ NewestFine.dueDate = now + DueDays]_vars

\* C18: create-payment-intent changes no fine; it opens an intent only for a
\* fine that exists, asked by staff or by the fine's own driver, whose status
\* is pending or overdue; it answers 404 for a missing fine, 403 for another
\* driver's fine, 400 for any other status, and then opens no intent.
C18_IntentOnlyForPayableFine ==
  [][out'.kind = "intent" =>
       LET f == out'.body.fineId
           u == out'.by
           exists == f \in DOMAIN fines
           permitted == Role(u) # "driver" \/ fines[f].driverId = u
           payable == fines[f].status \in {"pending", "overdue"}
       IN /\ fines' = fines
          /\ intents' # intents =>
               /\ exists /\ permitted /\ payable
               /\ out'.resp = 200
               /\ Len(intents') = Len(intents) + 1
               /\ intents'[Len(intents')].fineId = f
          /\ ~exists => out'.resp = 404 /\ intents' = intents
          /\ (exists /\ ~permitted) => out'.resp = 403 /\ intents' = intents
          /\ (exists /\ permitted /\ ~payable) =>
               out'.resp = 400 /\ intents' = intents]_vars

C18_Witness ==
  /\ out.kind = "intent"
  /\ out.resp = 200
  /\ out.seen = "overdue"
  /\ out.by \in Drivers
  /\ Len(intents) = 1
  /\ fines[intents[1].fineId].status = "overdue"

\* C19: the amount of an opened intent, in minor units, is the stored amount
\* of the fine times 100; its currency is the fine's, and its metadata names
\* that fine.
C19_IntentAmountInMinorUnits ==
  [][(out'.kind = "intent" /\ Len(intents') = Len(intents) + 1) =>
       LET f == out'.body.fineId
           intent == intents'[Len(intents')]
       IN /\ intent.fineId = f
          /\ intent.currency = toLowerCase(fines[f].currency)
          /\ intent.amount * Unit = fines[f].fineAmount * MinorPerUnit]_vars

C21_OtherEventsIgnored ==
  [][\A r \in Reqs :
       ( /\ req[r].kind = "webhook"
         /\ req[r].sigValid
         /\ req[r].evType # "payment_intent.succeeded"
         /\ Stepped(r) )
       => /\ fines' = fines
          /\ Answers(r)
          /\ out'.resp = 200
          /\ out'.lookups = 0]_vars

C21_Witness ==
  /\ out.kind = "webhook"
  /\ out.resp = 200
  /\ out.lookups = 0
  /\ \E i \in DOMAIN intents :
       intents[i].status # "succeeded" /\ fines[intents[i].fineId].status = "pending"

\* C22: the gateway is asked once per confirm-payment; a failure of that call
\* is answered at once with the gateway failure, which is neither
\* PaymentNotComplete nor Mismatch, and changes no fine; PaymentNotComplete
\* is answered only for an intent the gateway reports as not succeeded; a
\* create-payment-intent answered with the gateway failure changes no fine
\* and opens no intent.
C22_GatewayFailureSurfaced ==
  [][/\ \A r \in Reqs :
          ( /\ req[r].kind = "confirm"
            /\ req[r].pc = "retrieve"
            /\ Stepped(r) )
          => /\ req'[r].pc # "retrieve"
             /\ out'.msg = "PaymentNotComplete" =>
                  /\ req[r].intentId \in DOMAIN intents
                  /\ intents[req[r].intentId].status # "succeeded"
             /\ out'.resp = GatewayFailure.code =>
                  /\ fines' = fines
                  /\ Answers(r)
                  /\ out'.msg \notin {"PaymentNotComplete", "Mismatch"}
     /\ (out'.kind = "intent" /\ out'.resp = GatewayFailure.code)
          => fines' = fines /\ intents' = intents]_vars

C22_Witness ==
  /\ out.kind = "confirm"
  /\ out.resp = GatewayFailure.code
  /\ \E i \in DOMAIN intents :
       /\ intents[i].status = "succeeded"
       /\ fines[intents[i].fineId].status = "pending"
       /\ fines[intents[i].fineId].paymentInfo = NoPayment

OwnFines(u) == {f \in DOMAIN fines : fines[f].driverId = u}

\* C23: every fine a list shows to a driver, and every fine its total
\* counts, is that driver's; a driver's get, receipt, create-payment-intent
\* and confirm-payment on another driver's fine are answered 403, show
\* nothing and change nothing.
C23_DriverSeesOwnFinesOnly ==
  [][/\ (out'.kind = "list" /\ out'.by \in Drivers) =>
          /\ \A it \in out'.items : it.id \in OwnFines(out'.by)
          /\ out'.total <= Cardinality(OwnFines(out'.by))
     /\ ( /\ out'.kind \in {"get", "receipt", "intent"}
          /\ out'.by \in Drivers
          /\ out'.fineId \in DOMAIN fines
          /\ out'.fineId \notin OwnFines(out'.by) )
        => /\ out'.resp = 403
           /\ out'.items = {}
           /\ fines' = fines
           /\ intents' = intents
     /\ \A r \in Reqs :
          ( /\ req[r].kind = "confirm"
            /\ req[r].pc = "find"
            /\ Stepped(r)
            /\ req[r].actor \in Drivers
            /\ req[r].fineId \in DOMAIN fines
            /\ req[r].fineId \notin OwnFines(req[r].actor) )
          => /\ Answers(r)
             /\ out'.resp = 403
             /\ fines' = fines]_vars

C23_Witness ==
  /\ out.kind = "list"
  /\ out.by = "d2"
  /\ out.total = 1
  /\ Cardinality(out.items) = 1
  /\ Cardinality(OwnFines("d1")) = 1
  /\ Cardinality(OwnFines("d2")) = 1

\* C24: a confirm-payment or a payment notification that found the fine as it
\* is stored turns it into paid only from pending or overdue.
C24_PaidOnlyFromPayable ==
  [][\A r \in Reqs :
       ( /\ req[r].kind \in {"confirm", "webhook"}
         /\ Stepped(r)
         /\ req[r].fineId \in DOMAIN fines
         /\ StoredFine(r).status # "paid"
         /\ req[r].found.status = StoredFine(r).status
         /\ fines'[req[r].fineId].status = "paid" )
       => StoredFine(r).status \in {"pending", "overdue"}]_vars

\* the server while notes are written from every side, concurrently: notes
\* and reasoned status updates of the issuing officer, the driver's
\* confirm-payment, the gateway's notification of a succeeded payment
Annotators == {"d1"}

Annotations ==
  \/ Environment
  \/ \E i \in IntentIds : GatewayPay(i)
  \/ \E u \in Annotators, f \in FineIds : CreateIntent(u, f, TRUE)
  \/ \E r \in Reqs, u \in Annotators, f \in FineIds, i \in IntentIds :
       ConfirmArrive(r, u, f, i)
  \/ \E r \in Reqs : ConfirmFind(r)
  \/ \E r \in Reqs : ConfirmRetrieve(r, TRUE)
  \/ \E r \in Reqs : ConfirmAddNote(r)
  \/ \E r \in Reqs, i \in IntentIds, f \in FineIds :
       WebhookArrive(r, TRUE, "payment_intent.succeeded", i, f)
  \/ \E r \in Reqs : WebhookVerify(r)
  \/ \E r \in Reqs : WebhookFind(r)
  \/ \E r \in Reqs : WebhookMarkAsPaid(r)
  \/ \E r \in Reqs, u \in Issuers, f \in FineIds, st \in {"disputed", "cancelled"} :
       StatusArrive(r, u, f, st, "reason")
  \/ \E r \in Reqs : StatusFind(r)
  \/ \E r \in Reqs : StatusSave(r)
  \/ \E r \in Reqs, u \in Issuers, f \in FineIds : NoteArrive(r, u, f)
  \/ \E r \in Reqs : NoteFind(r)
  \/ \E r \in Reqs : NoteSave(r)

SpecNotes == Init /\ [][Annotations]_vars

IsPrefix(s, t) == Len(s) <= Len(t) /\ SubSeq(t, 1, Len(s)) = s

\* C25: in every step, every stored fine's notes list before the step is a
\* prefix of its notes list after it.
C25_NotesAppendOnly ==
  [][\A f \in DOMAIN fines : IsPrefix(fines[f].notes, fines'[f].notes)]_vars

\* a fine carries the notes of two requests of different kinds, by two users
C25_Witness ==
  \E f \in DOMAIN fines :
    /\ Len(fines[f].notes) = 2
    /\ fines[f].notes[1].content.kind # fines[f].notes[2].content.kind
    /\ fines[f].notes[1].addedBy # fines[f].notes[2].addedBy

\* C26: the step in which a status update answers appends to its fine exactly
\* one note, by the acting user and naming the target status, when the update
\* succeeded and carried a non-empty reason; otherwise it appends nothing; no
\* other fine's notes change.
C26_StatusAuditNote ==
  [][\A r \in Reqs :
       (req[r].kind = "status" /\ Answers(r))
       => LET q == req[r]
              f == q.fineId
          IN /\ \A g \in DOMAIN fines \ {f} : fines'[g].notes = fines[g].notes
             /\ f \in DOMAIN fines =>
                  IF out'.resp = 200 /\ q.reason \notin {Undef, ""}
                  THEN /\ Len(fines'[f].notes) = Len(fines[f].notes) + 1
                       /\ IsPrefix(fines[f].notes, fines'[f].notes)
                       /\ LET n == fines'[f].notes[Len(fines'[f].notes)]
                          IN /\ n.addedBy = q.actor
                             /\ n.content.kind = "status"
                             /\ n.content.status = q.status
                             /\ n.content.reason = q.reason
                  ELSE fines'[f].notes = fines[f].notes]_vars

\* a reasoned status update has succeeded and left its note
C26_Witness ==
  /\ out.kind = "status"
  /\ out.resp = 200
  /\ \E f \in DOMAIN fines :
       /\ Len(fines[f].notes) = 1
       /\ fines[f].notes[1].content.kind = "status"
       /\ fines[f].notes[1].content.status = fines[f].status

DisputePopulated(fine) ==
  /\ fine.disputeInfo.isDisputed = TRUE
  /\ fine.disputeInfo.disputeDate # NoDate
  /\ fine.disputeInfo.disputeStatus = "pending"

\* C27: after every step, every disputed fine has its dispute flag set, its
\* dispute date set and its dispute sub-status pending, and a fine that a
\* driver's status update has just turned disputed has a reason recorded.
C27_DisputeMetadata ==
  [][/\ \A f \in DOMAIN fines' :
          fines'[f].status = "disputed" => DisputePopulated(fines'[f])
     /\ \A r \in Reqs :
          ( /\ req[r].kind = "status"
            /\ Answers(r)
            /\ Role(req[r].actor) = "driver"
            /\ out'.resp = 200 )
          => fines'[req[r].fineId].disputeInfo.disputeReason \notin {Undef, ""}]_vars

\* C28: no step changes the due date of a stored fine.
C28_DueDateFixed ==
  [][\A f \in DOMAIN fines : fines'[f].dueDate = fines[f].dueDate]_vars

\* a fine past its due date has been paid and annotated
C28_Witness ==
  \E f \in DOMAIN fines :
    /\ fines[f].status = "paid"
    /\ fines[f].notes # <<>>
    /\ fines[f].paymentInfo.paidAt > fines[f].dueDate

\* ------------------------------------------- PUT, DELETE /api/violations/:id
\* the bodies of a violation update: $set of what the request carries
Patches == {[isActive |-> FALSE], [isActive |-> TRUE], [fineAmount |-> 3 * Unit]}

\* TrafficViolation.findByIdAndUpdate(id, { $set: req.body })
UpdateViolation(u, v, patch) ==
  /\ authenticateToken(u)
  /\ LET q == [IdleReq EXCEPT !.kind = "violation.put", !.actor = u, !.body = patch]
     IN
       IF ~requireAdmin(u)
       THEN out' = Answer(q, 403, "Access denied") /\ UNCHANGED violations
       ELSE IF v \notin DOMAIN violations
       THEN out' = Answer(q, 404, "Violation not found") /\ UNCHANGED violations
       ELSE /\ violations' = [violations EXCEPT ![v] = Spread(@, patch)]
            /\ out' = Answer(q, 200, "Violation updated successfully")
  /\ UNCHANGED <<now, ticks, fines, intents, req, nreq, accounts>>

\* TrafficViolation.findByIdAndDelete(id)
DeleteViolation(u, v) ==
  /\ authenticateToken(u)
  /\ LET q == [IdleReq EXCEPT !.kind = "violation.delete", !.actor = u,
                              !.body = [id |-> v]]
     IN
       IF ~requireAdmin(u)
       THEN out' = Answer(q, 403, "Access denied") /\ UNCHANGED violations
       ELSE IF v \notin DOMAIN violations
       THEN out' = Answer(q, 404, "Violation not found") /\ UNCHANGED violations
       ELSE /\ violations' = [w \in DOMAIN violations \ {v} |-> violations[w]]
            /\ out' = Answer(q, 200, "Violation deleted successfully")
  /\ UNCHANGED <<now, ticks, fines, intents, req, nreq, accounts>>

\* the server while fines are issued and the admin keeps the catalogue of
\* violations, one request at a time
Keepers == {"a1", "o1"}
ViolationIds == {"v1", "v2", NoViolation}

Catalog ==
  \/ \E u \in Issuers, b \in ReferenceBodies : CreateFine(u, b)
  \/ \E u \in Keepers, v \in ViolationIds, p \in Patches : UpdateViolation(u, v, p)
  \/ \E u \in Keepers, v \in ViolationIds : DeleteViolation(u, v)

SpecCatalog == Init /\ [][Catalog]_vars

\* C29: in every reachable state, the violation reference of every stored
\* fine resolves to a stored violation.
C29_ViolationResolves ==
  \A f \in DOMAIN fines : fines[f].violationId \in DOMAIN violations

\* ------------------------------------------------ PUT /api/users/:id/status
\* the whole handler: the role and self checks, User.findById, user.save()
SetAccountStatus(u, id, isActive) ==
  /\ authenticateToken(u)
  /\ LET q == [IdleReq EXCEPT !.kind = "user.status", !.actor = u,
                              !.body = [id |-> id, isActive |-> isActive]]
     IN
       IF ~requireAdmin(u)
       THEN out' = Answer(q, 403, "Access denied") /\ UNCHANGED accounts
       ELSE IF id = u
       THEN /\ out' = Answer(q, 400, "You cannot change your own account status")
            /\ UNCHANGED accounts
       ELSE IF id \notin DOMAIN accounts
       THEN out' = Answer(q, 404, "User not found") /\ UNCHANGED accounts
       ELSE /\ accounts' = [accounts EXCEPT ![id] = [@ EXCEPT !.isActive = isActive]]
            /\ out' = Answer(q, 200, "User status updated")
  /\ UNCHANGED <<now, ticks, fines, intents, req, nreq, violations>>

\* the server while the admin switches accounts off and on and their holders
\* go on sending requests: a driver and the admin
Holders == {"d1", "a1"}

Accounts ==
  \/ \E u \in Holders : CreateFine(u, [driverId |-> "d1", violationId |-> "v1"])
  \/ \E u \in Holders, id \in Holders, a \in BOOLEAN : SetAccountStatus(u, id, a)
  \/ \E u \in Holders : Unauthorized(u)
  \/ \E r \in Reqs, u \in Holders, f \in FineIds :
       StatusArrive(r, u, f, "disputed", "reason")
  \/ \E r \in Reqs : StatusFind(r)
  \/ \E r \in Reqs : StatusSave(r)
  \/ \E u \in Holders, f \in FineIds : GetFine(u, f)
  \/ \E u \in Holders : DeleteViolation(u, "v2")

SpecAccounts == Init /\ [][Accounts]_vars

\* C30: in every step taken while a user's account is switched off, no
\* handler starts for that user, and an operation that user attempts is
\* answered 401 and changes no fine, violation or account.
C30_DeactivatedRefused ==
  [][\A u \in Users :
       ~accounts[u].isActive
       => /\ \A r \in Reqs : Free(r) => req'[r].actor # u
          /\ (out' # NoResponse /\ out'.by = u)
             => /\ out'.resp = 401
                /\ fines' = fines
                /\ violations' = violations
                /\ accounts' = accounts]_vars

\* a user whose account is switched off has been refused while there was a
\* fine of theirs to act on
C30_Witness ==
  \E u \in Users :
    /\ ~accounts[u].isActive
    /\ out.kind = "refused"
    /\ out.by = u
    /\ out.resp = 401
    /\ \E f \in DOMAIN fines : u \in {fines[f].driverId, fines[f].policeOfficer}
====
